---- MODULE Spec2Model ----
(***************************************************************************)
(* Guard-X front end: the camera node (src/src/pages/CameraClient.jsx),    *)
(* the admin aggregator (src/src/pages/AdminDashboard.jsx) and the         *)
(* transport session module (src/src/utils/socket.js).                     *)
(*                                                                         *)
(* Each node is a single-threaded event loop: one action of the model is   *)
(* one event handler (or one continuation of an async function) run to     *)
(* completion, with every state update it queues applied.                  *)
(***************************************************************************)
EXTENDS Integers, Sequences, FiniteSets, TLC

\* ---------------------------------------------------------------- bounds
\* deploy:assigned commands handled by the camera node in one behaviour
MaxDeploys == 3
\* camera_frame messages emitted in one behaviour
MaxFrames == 2
\* records held by the admin registry
MaxCameras == 2
\* detections.count of one payload
MaxCount == 1
\* stats.totalDetections
MaxTotal == 2
\* connections created by io() in one behaviour
MaxConns == 3
\* emitEvent calls in one behaviour
MaxEmits == 2
\* detection payloads delivered to one video tile in one behaviour
MaxPayloads == 3
\* entries of the boxes, labels and confidences arrays of one DetectionSet
MaxBoxes == 2

VARIABLES
    \* ---- camera node (CameraClient.jsx)
    status,            \* stats.status
    connected,         \* connected / isConnectedRef.current
    deployed,          \* deployed
    streaming,         \* streaming
    currentDetection,  \* currentDetection # null
    intervalRef,       \* intervalRef.current # null
    activeTimers,      \* interval timers set and not cleared
    streamRef,         \* streamRef.current # null
    openStreams,       \* MediaStreams obtained whose tracks were not stopped
    video,             \* the <video> element behind videoRef
    pending,           \* getUserMedia requests not yet settled
    hasMediaDevices,   \* navigator.mediaDevices.getUserMedia exists
    frameCount,        \* frameCountRef.current
    totalFramesSent,   \* totalFramesSentRef.current
    emitted,           \* camera_frame messages emitted
    deploys,           \* deploy:assigned commands handled
    lastCmd,           \* last deploy command handled
    camEvent,          \* last handler run on the camera node
    trail,             \* stats.status values queued by the last handler, in order
    captured,          \* frames drawn to the canvas and encoded so far
    inFlight,          \* frames handed to socket.emit whose send has not completed
    lastAcq,           \* outcome of the last acquisition that ended: none, ok, failed
    deployFrom,        \* status in which the last deploy:assigned arrived, or
                       \* "overlapped" when an acquisition was still pending
    everDisconnected,  \* whether the transport has disconnected before
    \* ---- admin node (AdminDashboard.jsx)
    adminConnected,    \* connected
    cameras,           \* cameras: the registry, a list of records
    detections,        \* detections: camera_sid -> latest payload
    stats,             \* stats
    adminEvent,        \* last handler run on the admin node, with its input
    \* ---- transport session module (socket.js)
    socket,            \* the module-level socket: a connection, or 0 for null
    conn,              \* each connection io() made: its state in the library
    attempts,          \* each connection's reconnect attempts since it last opened
    ret,               \* what the last connectSocket call returned (0 for null)
    sockEvent,         \* last call into the module, or "io" for a library event
    emitLog,           \* emitEvent so far: messages handed to socket.emit, faults
                       \* logged with console.error, and whether a call raised
    \* ---- video tile (src/unnamed/part_000, VideoTile)
    tileLatest,        \* payloads received as the detection prop; the last one's id
    tileDecoding,      \* payloads whose Image has neither loaded nor failed yet
    tileBad,           \* payloads whose frame cannot be decoded
    canvas,            \* what the tile's canvas shows
    detSet,            \* the DetectionSet handed to drawBoundingBoxes
    overlay,           \* what drawBoundingBoxes drew
    infoList           \* the "Detections:" list rendered under the canvas

camVars == <<status, connected, deployed, streaming, currentDetection, intervalRef,
             activeTimers, streamRef, openStreams, video, pending, hasMediaDevices,
             frameCount, totalFramesSent, emitted, deploys, lastCmd, camEvent, trail,
             captured, inFlight, lastAcq, deployFrom, everDisconnected>>

adminVars == <<adminConnected, cameras, detections, stats, adminEvent>>

sockVars == <<socket, conn, attempts, ret, sockEvent, emitLog>>

tileVars == <<tileLatest, tileDecoding, tileBad, canvas, detSet, overlay, infoList>>

vars == <<camVars, adminVars, sockVars, tileVars>>

\* The session ids the hub hands out to camera nodes
SIDs == {1, 2}

\* ------------------------------------------------------------ camera node

\* useState / useRef initial values of the component
CamInit ==
    /\ status = "IDLE"
    /\ connected = FALSE
    /\ deployed = FALSE
    /\ streaming = FALSE
    /\ currentDetection = FALSE
    /\ intervalRef = FALSE
    /\ activeTimers = 0
    /\ streamRef = FALSE
    /\ openStreams = 0
    /\ video = "none"
    /\ pending = 0
    /\ hasMediaDevices \in BOOLEAN
    /\ frameCount = 0
    /\ totalFramesSent = 0
    /\ emitted = 0
    /\ deploys = 0
    /\ lastCmd = "none"
    /\ camEvent = "mount"
    /\ trail = <<>>
    /\ captured = 0
    /\ inFlight = 0
    /\ lastAcq = "none"
    /\ deployFrom = "none"
    /\ everDisconnected = FALSE

\* The <video> element is rendered unless the VideoTile replaces it.
VideoMounted(s, d) == ~(s /\ d)

\* videoRef after the re-render that follows a handler: an unmounted element
\* leaves the ref null, a remounted one is a fresh element without a source.
Rendered(v, s, d) ==
    IF ~VideoMounted(s, d) THEN "unmounted"
    ELSE IF video = "unmounted" THEN "none"
    ELSE v

\* The value of `deployed` seen by stopStreaming when called from the socket
\* handlers: the closure of the render in which the effect registered them.
ClosureDeployed == FALSE

\* stats.status after the queued updaters of one handler have run.
Settled(q) == q[Len(q)]


\* socketInstance.on('connect')
OnConnect ==
    /\ UNCHANGED <<adminVars, sockVars, tileVars>>
    /\ UNCHANGED <<captured, inFlight, lastAcq, deployFrom, everDisconnected>>
    /\ ~connected
    /\ connected' = TRUE
    /\ trail' = <<"CONNECTED">>
    /\ status' = Settled(trail')
    /\ camEvent' = "connect"
    /\ UNCHANGED <<deployed, streaming, currentDetection, intervalRef, activeTimers,
                   streamRef, openStreams, video, pending, hasMediaDevices,
                   frameCount, totalFramesSent, emitted, deploys, lastCmd>>

\* stopStreaming(), entered with the status updates `q` the handler queued first
StopStreaming(q) ==
    /\ intervalRef' = FALSE
    /\ activeTimers' = IF intervalRef THEN activeTimers - 1 ELSE activeTimers
    /\ streamRef' = FALSE
    /\ openStreams' = IF streamRef THEN openStreams - 1 ELSE openStreams
    /\ streaming' = FALSE
    /\ currentDetection' = FALSE
    /\ video' = Rendered(IF video = "unmounted" THEN video ELSE "none", FALSE, FALSE)
    /\ trail' = Append(q, IF ClosureDeployed THEN "DEPLOYED" ELSE "IDLE")
    /\ status' = Settled(trail')

\* socketInstance.on('disconnect')
OnDisconnect ==
    /\ UNCHANGED <<adminVars, sockVars, tileVars>>
    /\ everDisconnected' = TRUE
    /\ UNCHANGED <<captured, inFlight, lastAcq, deployFrom>>
    /\ connected
    /\ connected' = FALSE
    /\ deployed' = FALSE
    /\ StopStreaming(<<"DISCONNECTED">>)
    /\ camEvent' = "disconnect"
    /\ UNCHANGED <<pending, hasMediaDevices, frameCount, totalFramesSent, emitted,
                   deploys, lastCmd>>

\* socketInstance.on('deploy:assigned'): startStreaming() runs up to its await
OnDeployAssigned ==
    /\ UNCHANGED <<adminVars, sockVars, tileVars>>
    /\ deployFrom' = IF pending = 0 THEN status ELSE "overlapped"
    /\ lastAcq' = IF hasMediaDevices THEN lastAcq ELSE "failed"
    /\ UNCHANGED <<captured, inFlight, everDisconnected>>
    /\ connected
    /\ deploys < MaxDeploys
    /\ deploys' = deploys + 1
    /\ deployed' = TRUE
    /\ lastCmd' = "assigned"
    /\ IF hasMediaDevices
         THEN /\ pending' = pending + 1
              /\ trail' = <<"DEPLOYED">>
         ELSE /\ pending' = pending
              /\ trail' = <<"DEPLOYED", "ERROR">>
    /\ status' = Settled(trail')
    /\ camEvent' = "deploy:assigned"
    /\ UNCHANGED <<connected, streaming, currentDetection, intervalRef, activeTimers,
                   streamRef, openStreams, video, hasMediaDevices, frameCount,
                   totalFramesSent, emitted>>

\* socketInstance.on('deploy:stop')
OnDeployStop ==
    /\ UNCHANGED <<adminVars, sockVars, tileVars>>
    /\ UNCHANGED <<captured, inFlight, lastAcq, deployFrom, everDisconnected>>
    /\ connected
    /\ deployed' = FALSE
    /\ lastCmd' = "stop"
    /\ StopStreaming(<<"STOPPED">>)
    /\ camEvent' = "deploy:stop"
    /\ UNCHANGED <<connected, pending, hasMediaDevices, frameCount, totalFramesSent,
                   emitted, deploys>>

\* startStreaming() resumed after getUserMedia resolved
AcquireOk ==
    /\ UNCHANGED <<adminVars, sockVars, tileVars>>
    /\ lastAcq' = "ok"
    /\ UNCHANGED <<captured, inFlight, deployFrom, everDisconnected>>
    /\ pending > 0
    /\ pending' = pending - 1
    /\ streamRef' = TRUE
    /\ openStreams' = openStreams + 1
    /\ video' = IF video = "unmounted" THEN video ELSE "loading"
    /\ intervalRef' = TRUE
    /\ activeTimers' = (IF intervalRef THEN activeTimers - 1 ELSE activeTimers) + 1
    /\ trail' = <<>>
    /\ camEvent' = "acquired"
    /\ UNCHANGED <<status, connected, deployed, streaming, currentDetection,
                   hasMediaDevices, frameCount, totalFramesSent, emitted, deploys,
                   lastCmd>>

\* startStreaming() resumed after getUserMedia rejected: the catch block
AcquireFail ==
    /\ UNCHANGED <<adminVars, sockVars, tileVars>>
    /\ lastAcq' = "failed"
    /\ UNCHANGED <<captured, inFlight, deployFrom, everDisconnected>>
    /\ pending > 0
    /\ pending' = pending - 1
    /\ trail' = <<"ERROR">>
    /\ status' = Settled(trail')
    /\ camEvent' = "acquire-failed"
    /\ UNCHANGED <<connected, deployed, streaming, currentDetection, intervalRef,
                   activeTimers, streamRef, openStreams, video, hasMediaDevices,
                   frameCount, totalFramesSent, emitted, deploys, lastCmd>>

\* videoRef.current.onloadedmetadata, up to its await of play()
MetadataLoaded ==
    /\ UNCHANGED <<adminVars, sockVars, tileVars>>
    /\ UNCHANGED <<captured, inFlight, lastAcq, deployFrom, everDisconnected>>
    /\ video = "loading"
    /\ video' = "ready"
    /\ trail' = <<>>
    /\ camEvent' = "loadedmetadata"
    /\ UNCHANGED <<status, connected, deployed, streaming, currentDetection,
                   intervalRef, activeTimers, streamRef, openStreams, pending,
                   hasMediaDevices, frameCount, totalFramesSent, emitted, deploys,
                   lastCmd>>

\* onloadedmetadata resumed after play() resolved
PlayResolved ==
    /\ UNCHANGED <<adminVars, sockVars, tileVars>>
    /\ UNCHANGED <<captured, inFlight, lastAcq, deployFrom, everDisconnected>>
    /\ video = "ready"
    /\ streaming' = TRUE
    /\ video' = Rendered("playing", TRUE, currentDetection)
    /\ trail' = <<"STREAMING">>
    /\ status' = Settled(trail')
    /\ camEvent' = "playing"
    /\ UNCHANGED <<connected, deployed, currentDetection, intervalRef, activeTimers,
                   streamRef, openStreams, pending, hasMediaDevices, frameCount,
                   totalFramesSent, emitted, deploys, lastCmd>>

\* onloadedmetadata resumed after play() rejected: the inner catch block
PlayRejected ==
    /\ UNCHANGED <<adminVars, sockVars, tileVars>>
    /\ UNCHANGED <<captured, inFlight, lastAcq, deployFrom, everDisconnected>>
    /\ video = "ready"
    /\ video' = "paused"
    /\ trail' = <<>>
    /\ camEvent' = "play-failed"
    /\ UNCHANGED <<status, connected, deployed, streaming, currentDetection,
                   intervalRef, activeTimers, streamRef, openStreams, pending,
                   hasMediaDevices, frameCount, totalFramesSent, emitted, deploys,
                   lastCmd>>

\* socketInstance.on('detection:result') of the camera node
OnDetectionResult ==
    /\ UNCHANGED <<adminVars, sockVars, tileVars>>
    /\ UNCHANGED <<captured, inFlight, lastAcq, deployFrom, everDisconnected>>
    /\ connected
    /\ ~currentDetection
    /\ currentDetection' = TRUE
    /\ video' = Rendered(video, streaming, TRUE)
    /\ trail' = <<>>
    /\ camEvent' = "detection:result"
    /\ UNCHANGED <<status, connected, deployed, streaming, intervalRef, activeTimers,
                   streamRef, openStreams, pending, hasMediaDevices, frameCount,
                   totalFramesSent, emitted, deploys, lastCmd>>

\* The early returns of captureAndSendFrame: a frame is captured and sent only
\* with a mounted, playing video of known size on a connected socket.
CanCapture == connected /\ video \in {"ready", "playing"}

\* The interval callback, were the rollover to leave the per-second counter as
\* it is: the frames of the second just ended are added to the total again at
\* the next rollover
Tick_KeepsCounter(rollover) ==
    /\ UNCHANGED <<adminVars, sockVars, tileVars>>
    /\ activeTimers > 0
    /\ emitted < MaxFrames
    /\ CanCapture
    /\ captured' = captured + 1
    /\ emitted' = emitted + 1
    /\ inFlight' = inFlight + 1
    /\ camEvent' = "tick"
    /\ frameCount' = frameCount + 1
    /\ IF rollover
         THEN /\ totalFramesSent' = totalFramesSent + frameCount + 1
              /\ trail' = <<"STREAMING">>
              /\ status' = Settled(trail')
         ELSE /\ trail' = <<>>
              /\ UNCHANGED <<totalFramesSent, status>>
    /\ UNCHANGED <<connected, deployed, streaming, currentDetection,
                   intervalRef, activeTimers, streamRef, openStreams, video,
                   pending, hasMediaDevices, deploys, lastCmd, lastAcq,
                   deployFrom, everDisconnected>>

\* The interval callback, were it to keep its frame back while an earlier send
\* is still in flight
Tick_AwaitsSend(rollover) ==
    /\ UNCHANGED <<adminVars, sockVars, tileVars>>
    /\ activeTimers > 0
    /\ emitted < MaxFrames
    /\ captured < MaxFrames
    /\ CanCapture
    /\ captured' = captured + 1
    /\ emitted' = IF inFlight = 0 THEN captured' ELSE emitted
    /\ inFlight' = IF inFlight = 0 THEN inFlight + (captured' - emitted) ELSE inFlight
    /\ camEvent' = "tick"
    /\ trail' = <<>>
    /\ UNCHANGED <<status, connected, deployed, streaming, currentDetection,
                   intervalRef, activeTimers, streamRef, openStreams, video, pending,
                   hasMediaDevices, frameCount, totalFramesSent, deploys, lastCmd,
                   lastAcq, deployFrom, everDisconnected>>

\* One firing of the interval callback; `rollover` is now - lastFpsUpdate >= 1000
Tick(rollover) ==
    /\ UNCHANGED <<adminVars, sockVars, tileVars>>
    /\ activeTimers > 0
    /\ emitted < MaxFrames
    /\ IF CanCapture
         THEN /\ captured' = captured + 1
              /\ emitted' = emitted + 1
              /\ inFlight' = inFlight + 1
              /\ camEvent' = "tick"
              /\ IF rollover
                   THEN /\ totalFramesSent' = totalFramesSent + frameCount + 1
                        /\ frameCount' = 0
                        /\ trail' = <<"STREAMING">>
                        /\ status' = Settled(trail')
                   ELSE /\ frameCount' = frameCount + 1
                        /\ trail' = <<>>
                        /\ UNCHANGED <<totalFramesSent, status>>
              /\ UNCHANGED <<connected, deployed, streaming, currentDetection,
                             intervalRef, activeTimers, streamRef, openStreams, video,
                             pending, hasMediaDevices, deploys, lastCmd, lastAcq,
                             deployFrom, everDisconnected>>
         ELSE UNCHANGED camVars

\* The interval callback, were a fault inside it to end the loop
TickFault_StopsLoop ==
    /\ UNCHANGED <<adminVars, sockVars, tileVars>>
    /\ activeTimers > 0
    /\ CanCapture
    /\ intervalRef' = FALSE
    /\ activeTimers' = activeTimers - 1
    /\ trail' = <<>>
    /\ camEvent' = "tick-fault"
    /\ UNCHANGED <<status, connected, deployed, streaming, currentDetection,
                   streamRef, openStreams, video, pending, hasMediaDevices,
                   frameCount, totalFramesSent, emitted, deploys, lastCmd, captured,
                   inFlight, lastAcq, deployFrom, everDisconnected>>

\* One firing of the interval callback in which a call of the try block throws
\* (drawImage, toDataURL or socket.emit): the catch block logs the error
TickFault ==
    /\ UNCHANGED <<adminVars, sockVars, tileVars>>
    /\ activeTimers > 0
    /\ CanCapture
    /\ trail' = <<>>
    /\ camEvent' = "tick-fault"
    /\ UNCHANGED <<status, connected, deployed, streaming, currentDetection,
                   intervalRef, activeTimers, streamRef, openStreams, video, pending,
                   hasMediaDevices, frameCount, totalFramesSent, emitted, deploys,
                   lastCmd, captured, inFlight, lastAcq, deployFrom, everDisconnected>>

\* The transport finishes writing one frame that socket.emit handed to it
SendComplete ==
    /\ UNCHANGED <<adminVars, sockVars, tileVars>>
    /\ inFlight > 0
    /\ inFlight' = inFlight - 1
    /\ trail' = <<>>
    /\ camEvent' = "sent"
    /\ UNCHANGED <<status, connected, deployed, streaming, currentDetection,
                   intervalRef, activeTimers, streamRef, openStreams, video, pending,
                   hasMediaDevices, frameCount, totalFramesSent, emitted, deploys,
                   lastCmd, captured, lastAcq, deployFrom, everDisconnected>>

NextCamera ==
    \/ OnConnect
    \/ OnDisconnect
    \/ OnDeployAssigned
    \/ OnDeployStop
    \/ AcquireOk
    \/ AcquireFail
    \/ MetadataLoaded
    \/ PlayResolved
    \/ PlayRejected
    \/ OnDetectionResult
    \/ \E rollover \in BOOLEAN : Tick(rollover)
    \/ TickFault
    \/ SendComplete

\* ------------------------------------------------------------- admin node

\* useState initial values of the component
AdminInit ==
    /\ adminConnected = FALSE
    /\ cameras = <<>>
    /\ detections = <<>>
    /\ stats = [totalCameras |-> 0, deployedCameras |-> 0,
                totalDetections |-> 0, activeThreats |-> 0]
    /\ adminEvent = [type |-> "mount", sid |-> 0, sent |-> FALSE, count |-> <<>>,
                     had |-> FALSE,
                     reached |-> FALSE, alerted |-> FALSE,
                  timestamp |-> 0, stale |-> FALSE]

\* The record of a handler run: its name and sid argument, whether it emitted a
\* message, the count field of an arriving payload, whether the admin held
\* both a record and a payload for the sid when the handler started, and
\* whether the message it emitted reached the hub, whether it showed the
\* 'Not connected to server' alert, the timestamp of an arriving payload (0
\* for the other events), and whether that payload is older than the one held
Event(t, sid) == [type |-> t, sid |-> sid, sent |-> FALSE, count |-> <<>>,
                  had |-> FALSE,
                  reached |-> FALSE, alerted |-> FALSE,
                  timestamp |-> 0, stale |-> FALSE]

\* A CameraRecord as the admin holds it (camera_id and username are display only)
Record(sid, dep) == [sid |-> sid, deployed |-> dep]

\* data.detections?.count || 0, the count field being <<>> when absent
Count(p) == IF p.count = <<>> THEN 0 ELSE p.count[1]

\* Array.prototype.filter
RECURSIVE Filter(_, _)
Filter(list, sid) ==
    IF list = <<>> THEN <<>>
    ELSE IF Head(list).sid # sid THEN <<Head(list)>> \o Filter(Tail(list), sid)
    ELSE Filter(Tail(list), sid)

\* prev.map(cam => cam.sid === sid ? {...cam, deployed: dep} : cam)
SetDeployed(list, sid, dep) ==
    [i \in DOMAIN list |->
        IF list[i].sid = sid THEN [list[i] EXCEPT !.deployed = dep] ELSE list[i]]

\* { ...prev }; delete updated[sid]
DeleteKey(d, sid) == [k \in DOMAIN d \ {sid} |-> d[k]]

\* { ...prev, [sid]: data }
PutKey(d, sid, data) == [k \in DOMAIN d \cup {sid} |-> IF k = sid THEN data ELSE d[k]]

\* Object.values(d).reduce((sum, det) => sum + (det.detections?.count || 0), 0)
RECURSIVE SumCounts(_, _)
SumCounts(d, keys) ==
    IF keys = {} THEN 0
    ELSE LET k == CHOOSE x \in keys : TRUE
         IN Count(d[k]) + SumCounts(d, keys \ {k})

\* updateStats(cameraList) written without the ...prev spread: the new stats
\* object holds the two camera counts only and the detection counters restart
UpdateStats_NoSpread(st, cameraList) ==
    [totalCameras |-> Len(cameraList),
     deployedCameras |-> Cardinality({i \in DOMAIN cameraList : cameraList[i].deployed}),
     totalDetections |-> 0,
     activeThreats |-> 0]

\* updateStats(cameraList)
UpdateStats(st, cameraList) ==
    [st EXCEPT !.totalCameras = Len(cameraList),
               !.deployedCameras =
                   Cardinality({i \in DOMAIN cameraList : cameraList[i].deployed})]

\* The camera lists the hub sends on admin join: one record per connected sid
CameraLists ==
    {<<>>}
    \cup {<<Record(s, d)>> : s \in SIDs, d \in BOOLEAN}
    \cup {l \in {<<Record(s, d), Record(t, e)>> :
                    s \in SIDs, t \in SIDs, d \in BOOLEAN, e \in BOOLEAN} :
            l[1].sid # l[2].sid}

\* The count field of an arriving payload
Counts == {<<>>} \cup {<<c>> : c \in 0..MaxCount}

\* The sids of the registry records
Sids(list) == {list[i].sid : i \in DOMAIN list}

\* The admin holds both a record and a payload for sid
Held(sid) == sid \in Sids(cameras) /\ sid \in DOMAIN detections

\* socketInstance.on('connect') of the admin
AdminOnConnect ==
    /\ UNCHANGED <<camVars, sockVars, tileVars>>
    /\ ~adminConnected
    /\ adminConnected' = TRUE
    /\ adminEvent' = Event("connect", 0)
    /\ UNCHANGED <<cameras, detections, stats>>

\* socketInstance.on('disconnect') of the admin
AdminOnDisconnect ==
    /\ UNCHANGED <<camVars, sockVars, tileVars>>
    /\ adminConnected
    /\ adminConnected' = FALSE
    /\ adminEvent' = Event("disconnect", 0)
    /\ UNCHANGED <<cameras, detections, stats>>

\* socketInstance.on('camera:list')
OnCameraList(list) ==
    /\ UNCHANGED <<camVars, sockVars, tileVars>>
    /\ adminConnected
    /\ cameras' = list
    /\ stats' = UpdateStats(stats, list)
    /\ adminEvent' = Event("camera:list", 0)
    /\ UNCHANGED <<adminConnected, detections>>

\* socketInstance.on('camera:connected')
OnCameraConnected(sid) ==
    /\ UNCHANGED <<camVars, sockVars, tileVars>>
    /\ adminConnected
    /\ Len(cameras) < MaxCameras
    /\ cameras' = Append(cameras, Record(sid, FALSE))
    /\ stats' = UpdateStats(stats, cameras')
    /\ adminEvent' = Event("camera:connected", sid)
    /\ UNCHANGED <<adminConnected, detections>>

\* The camera:disconnect handler without its setDetections call: the record is
\* removed and the payload stays
OnCameraDisconnect_KeepsPayload(sid) ==
    /\ UNCHANGED <<camVars, sockVars, tileVars>>
    /\ adminConnected
    /\ cameras' = Filter(cameras, sid)
    /\ stats' = UpdateStats(stats, cameras')
    /\ adminEvent' = [Event("camera:disconnect", sid) EXCEPT !.had = Held(sid)]
    /\ UNCHANGED <<adminConnected, detections>>

\* socketInstance.on('camera:disconnect')
OnCameraDisconnect(sid) ==
    /\ UNCHANGED <<camVars, sockVars, tileVars>>
    /\ adminConnected
    /\ cameras' = Filter(cameras, sid)
    /\ stats' = UpdateStats(stats, cameras')
    /\ detections' = DeleteKey(detections, sid)
    /\ adminEvent' = [Event("camera:disconnect", sid) EXCEPT !.had = Held(sid)]
    /\ UNCHANGED adminConnected

\* socketInstance.on('deploy:success')
OnDeploySuccess(sid) ==
    /\ UNCHANGED <<camVars, sockVars, tileVars>>
    /\ adminConnected
    /\ cameras' = SetDeployed(cameras, sid, TRUE)
    /\ stats' = UpdateStats(stats, cameras')
    /\ adminEvent' = Event("deploy:success", sid)
    /\ UNCHANGED <<adminConnected, detections>>

\* The timestamps of the arriving payloads
Timestamps == {1, 2}

\* The payload held for sid carries a later timestamp than ts
Newer(sid, ts) == sid \in DOMAIN detections /\ detections[sid].timestamp > ts

\* The detection:result handler, were it to keep the payload it holds when the
\* arriving one carries an earlier timestamp
AdminOnDetectionResult_NewestWins(sid, cnt, ts) ==
    LET data == [camera_sid |-> sid, count |-> cnt, timestamp |-> ts]
        updatedDetections == IF Newer(sid, ts) THEN detections
                             ELSE PutKey(detections, sid, data)
    IN /\ UNCHANGED <<camVars, sockVars, tileVars>>
       /\ adminConnected
       /\ stats.totalDetections + Count(data) <= MaxTotal
       /\ detections' = updatedDetections
       /\ stats' = [stats EXCEPT
                       !.totalDetections = stats.totalDetections + Count(data),
                       !.activeThreats =
                           SumCounts(updatedDetections, DOMAIN updatedDetections)]
       /\ adminEvent' = [Event("detection:result", sid) EXCEPT
                            !.count = cnt, !.timestamp = ts, !.stale = Newer(sid, ts)]
       /\ UNCHANGED <<adminConnected, cameras>>

\* socketInstance.on('detection:result') of the admin
AdminOnDetectionResult(sid, cnt, ts) ==
    LET data == [camera_sid |-> sid, count |-> cnt, timestamp |-> ts]
        updatedDetections == PutKey(detections, sid, data)
    IN /\ UNCHANGED <<camVars, sockVars, tileVars>>
       /\ adminConnected
       /\ stats.totalDetections + Count(data) <= MaxTotal
       /\ detections' = updatedDetections
       /\ stats' = [stats EXCEPT
                       !.totalDetections = stats.totalDetections + Count(data),
                       !.activeThreats =
                           SumCounts(updatedDetections, DOMAIN updatedDetections)]
       /\ adminEvent' = [Event("detection:result", sid) EXCEPT
                            !.count = cnt, !.timestamp = ts, !.stale = Newer(sid, ts)]
       /\ UNCHANGED <<adminConnected, cameras>>

\* The sids of the registry rows, each of which shows one button
Listed(dep) == {cameras[i].sid : i \in {j \in DOMAIN cameras : cameras[j].deployed = dep}}

\* handleDeploy without its connection guard: deploy_start is handed to
\* emitEvent whatever the connection state
HandleDeploy_Unguarded(sid) ==
    /\ UNCHANGED <<camVars, sockVars, tileVars>>
    /\ sid \in Listed(FALSE)
    /\ adminEvent' = [Event("handleDeploy", sid) EXCEPT !.sent = TRUE]
    /\ UNCHANGED <<adminConnected, cameras, detections, stats>>

\* handleDeploy(cameraSid): the Deploy button of an IDLE row
HandleDeploy(sid) ==
    /\ UNCHANGED <<camVars, sockVars, tileVars>>
    /\ sid \in Listed(FALSE)
    /\ adminEvent' = [Event("handleDeploy", sid) EXCEPT !.sent = adminConnected,
                                                         !.alerted = ~adminConnected]
    /\ UNCHANGED <<adminConnected, cameras, detections, stats>>

\* handleStop, were it to change the local state only once the hub has the
\* deploy_stop message
HandleStop_AwaitsHub(sid) ==
    /\ UNCHANGED <<camVars, sockVars, tileVars>>
    /\ sid \in Listed(TRUE)
    /\ \E reached \in BOOLEAN :
         /\ adminEvent' = [Event("handleStop", sid) EXCEPT
                              !.sent = adminConnected,
                              !.had = Held(sid),
                              !.reached = adminConnected /\ reached,
                              !.alerted = ~adminConnected]
         /\ IF adminConnected /\ reached
              THEN /\ cameras' = SetDeployed(cameras, sid, FALSE)
                   /\ detections' = DeleteKey(detections, sid)
              ELSE UNCHANGED <<cameras, detections>>
    /\ UNCHANGED <<adminConnected, stats>>

\* handleStop(cameraSid): the Stop button of a DEPLOYED row; whether the
\* deploy_stop message handed to emitEvent reaches the hub is not the handler's
\* to know
HandleStop(sid) ==
    /\ UNCHANGED <<camVars, sockVars, tileVars>>
    /\ sid \in Listed(TRUE)
    /\ \E reached \in BOOLEAN :
         adminEvent' = [Event("handleStop", sid) EXCEPT
                           !.sent = adminConnected,
                           !.had = Held(sid),
                           !.reached = adminConnected /\ reached,
                           !.alerted = ~adminConnected]
    /\ IF adminConnected
         THEN /\ cameras' = SetDeployed(cameras, sid, FALSE)
              /\ detections' = DeleteKey(detections, sid)
         ELSE UNCHANGED <<cameras, detections>>
    /\ UNCHANGED <<adminConnected, stats>>

NextAdmin ==
    \/ AdminOnConnect
    \/ AdminOnDisconnect
    \/ \E list \in CameraLists : OnCameraList(list)
    \/ \E sid \in SIDs : OnCameraConnected(sid)
    \/ \E sid \in SIDs : OnCameraDisconnect(sid)
    \/ \E sid \in SIDs : OnDeploySuccess(sid)
    \/ \E sid \in SIDs, cnt \in Counts, ts \in Timestamps :
          AdminOnDetectionResult(sid, cnt, ts)
    \/ \E sid \in SIDs : HandleDeploy(sid)
    \/ \E sid \in SIDs : HandleStop(sid)

\* ------------------------------------------------- transport session module

\* reconnectionAttempts
ReconnectionAttempts == 5

Conns == 1..MaxConns

\* let socket = null, before any io() call
SocketInit ==
    /\ socket = 0
    /\ conn = [c \in Conns |-> "unused"]
    /\ attempts = [c \in Conns |-> 0]
    /\ ret = 0
    /\ sockEvent = [op |-> "load", token |-> ""]
    /\ emitLog = [sent |-> 0, faults |-> 0, raised |-> FALSE]

\* Connections io() has made so far
Created == {c \in Conns : conn[c] # "unused"}

\* Connections whose manager is still connecting, connected or reconnecting
Alive == {c \in Conns : conn[c] \in {"connecting", "connected", "reconnecting"}}

\* socket && socket.connected
SocketConnected == socket # 0 /\ conn[socket] = "connected"

\* The tokens a caller passes: absent or empty, or a credential
Tokens == {"", "jwt"}

\* connectSocket(token) with the token check ahead of the connected check
ConnectSocket_TokenFirst(token) ==
    /\ UNCHANGED <<camVars, adminVars, tileVars, emitLog>>
    /\ sockEvent' = [op |-> "connectSocket", token |-> token]
    /\ IF token = ""
         THEN /\ ret' = 0
              /\ UNCHANGED <<socket, conn, attempts>>
         ELSE IF SocketConnected
         THEN /\ ret' = socket
              /\ UNCHANGED <<socket, conn, attempts>>
         ELSE /\ Cardinality(Created) < MaxConns
              /\ LET c == Cardinality(Created) + 1
                 IN /\ conn' = [conn EXCEPT ![c] = "connecting"]
                    /\ socket' = c
                    /\ ret' = c
              /\ UNCHANGED attempts

\* connectSocket(token) without the token check: io() is called with any token
ConnectSocket_NoTokenCheck(token) ==
    /\ UNCHANGED <<camVars, adminVars, tileVars, emitLog>>
    /\ sockEvent' = [op |-> "connectSocket", token |-> token]
    /\ IF SocketConnected
         THEN /\ ret' = socket
              /\ UNCHANGED <<socket, conn, attempts>>
         ELSE /\ Cardinality(Created) < MaxConns
              /\ LET c == Cardinality(Created) + 1
                 IN /\ conn' = [conn EXCEPT ![c] = "connecting"]
                    /\ socket' = c
                    /\ ret' = c
              /\ UNCHANGED attempts

\* connectSocket(token)
ConnectSocket(token) ==
    /\ UNCHANGED <<camVars, adminVars, tileVars, emitLog>>
    /\ sockEvent' = [op |-> "connectSocket", token |-> token]
    /\ IF SocketConnected
         THEN /\ ret' = socket
              /\ UNCHANGED <<socket, conn, attempts>>
         ELSE IF token = ""
         THEN /\ ret' = 0
              /\ UNCHANGED <<socket, conn, attempts>>
         ELSE /\ Cardinality(Created) < MaxConns
              /\ LET c == Cardinality(Created) + 1
                 IN /\ conn' = [conn EXCEPT ![c] = "connecting"]
                    /\ socket' = c
                    /\ ret' = c
              /\ UNCHANGED attempts

\* disconnectSocket()
DisconnectSocket ==
    /\ UNCHANGED <<camVars, adminVars, tileVars, emitLog>>
    /\ sockEvent' = [op |-> "disconnectSocket", token |-> ""]
    /\ IF socket # 0
         THEN /\ conn' = [conn EXCEPT ![socket] = "closed"]
              /\ attempts' = [attempts EXCEPT ![socket] = 0]
              /\ socket' = 0
         ELSE UNCHANGED <<socket, conn, attempts>>
    /\ UNCHANGED ret

\* emitEvent(event, data) calling socket.emit without the guard: on a null
\* socket the call raises, on a disconnected one the message is handed over
EmitEvent_Unguarded ==
    /\ UNCHANGED <<camVars, adminVars, tileVars>>
    /\ emitLog.sent + emitLog.faults < MaxEmits
    /\ sockEvent' = [op |-> "emitEvent", token |-> ""]
    /\ IF socket = 0
         THEN emitLog' = [emitLog EXCEPT !.raised = TRUE, !.faults = emitLog.faults + 1]
         ELSE emitLog' = [emitLog EXCEPT !.sent = emitLog.sent + 1]
    /\ UNCHANGED <<socket, conn, attempts, ret>>

\* emitEvent(event, data)
EmitEvent ==
    /\ UNCHANGED <<camVars, adminVars, tileVars>>
    /\ emitLog.sent + emitLog.faults < MaxEmits
    /\ sockEvent' = [op |-> "emitEvent", token |-> ""]
    /\ IF SocketConnected
         THEN emitLog' = [emitLog EXCEPT !.sent = emitLog.sent + 1]
         ELSE emitLog' = [emitLog EXCEPT !.faults = emitLog.faults + 1]
    /\ UNCHANGED <<socket, conn, attempts, ret>>

\* The library opens the connection: the 'connect' event
IoConnect(c) ==
    /\ UNCHANGED <<camVars, adminVars, tileVars, emitLog>>
    /\ conn[c] \in {"connecting", "reconnecting"}
    /\ conn' = [conn EXCEPT ![c] = "connected"]
    /\ attempts' = [attempts EXCEPT ![c] = 0]
    /\ sockEvent' = [op |-> "io", token |-> ""]
    /\ UNCHANGED <<socket, ret>>

\* The library loses the connection or fails to open it ('disconnect',
\* 'connect_error'): it retries, up to reconnectionAttempts times, then gives up
IoLost(c) ==
    /\ UNCHANGED <<camVars, adminVars, tileVars, emitLog>>
    /\ conn[c] \in {"connecting", "connected", "reconnecting"}
    /\ IF attempts[c] < ReconnectionAttempts
         THEN /\ conn' = [conn EXCEPT ![c] = "reconnecting"]
              /\ attempts' = [attempts EXCEPT ![c] = attempts[c] + 1]
         ELSE /\ conn' = [conn EXCEPT ![c] = "closed"]
              /\ attempts' = [attempts EXCEPT ![c] = 0]
    /\ sockEvent' = [op |-> "io", token |-> ""]
    /\ UNCHANGED <<socket, ret>>

\* The server closes the connection: the library does not reconnect
IoServerDisconnect(c) ==
    /\ UNCHANGED <<camVars, adminVars, tileVars, emitLog>>
    /\ conn[c] = "connected"
    /\ conn' = [conn EXCEPT ![c] = "closed"]
    /\ attempts' = [attempts EXCEPT ![c] = 0]
    /\ sockEvent' = [op |-> "io", token |-> ""]
    /\ UNCHANGED <<socket, ret>>

NextSocket ==
    \/ \E token \in Tokens : ConnectSocket(token)
    \/ DisconnectSocket
    \/ EmitEvent
    \/ \E c \in Conns : IoConnect(c)
    \/ \E c \in Conns : IoLost(c)
    \/ \E c \in Conns : IoServerDisconnect(c)

\* -------------------------------------------------------------- video tile

\* The payloads one tile can receive, numbered in order of arrival
Payloads == 1..MaxPayloads

\* The canvas of a tile that was just mounted
Blank == [frame |-> 0, boxes |-> 0, placeholder |-> FALSE]

\* A DetectionSet without detections
NoDetections == [boxes |-> <<>>, hasLabels |-> TRUE, labels |-> <<>>,
                 hasConfidences |-> TRUE, confidences |-> <<>>]

\* useRef(null) of the component, before any detection prop
TileInit ==
    /\ tileLatest = 0
    /\ tileDecoding = {}
    /\ tileBad = {}
    /\ canvas = Blank
    /\ detSet = NoDetections
    /\ overlay = [done |-> FALSE, raised |-> FALSE, drawn |-> <<>>]
    /\ infoList = [done |-> FALSE, raised |-> FALSE, items |-> <<>>]

\* The render effect for a new detection prop: a new Image whose src is the
\* payload's frame; `decodable` is whether the frame is a valid image
TileReceive(decodable) ==
    /\ UNCHANGED <<camVars, adminVars, sockVars>>
    /\ tileLatest < MaxPayloads
    /\ tileLatest' = tileLatest + 1
    /\ tileDecoding' = tileDecoding \cup {tileLatest'}
    /\ tileBad' = IF decodable THEN tileBad ELSE tileBad \cup {tileLatest'}
    /\ UNCHANGED <<canvas, detSet, overlay, infoList>>

\* img.onload of payload p: its frame is drawn, then the boxes of the
\* detection the effect closed over
ImgOnload(p) ==
    /\ UNCHANGED <<camVars, adminVars, sockVars>>
    /\ p \in tileDecoding \ tileBad
    /\ tileDecoding' = tileDecoding \ {p}
    /\ canvas' = [frame |-> p, boxes |-> p, placeholder |-> FALSE]
    /\ UNCHANGED <<tileLatest, tileBad, detSet, overlay, infoList>>

\* img.onerror, were it to log the failure only
ImgOnerror_LogsOnly(p) ==
    /\ UNCHANGED <<camVars, adminVars, sockVars>>
    /\ p \in tileDecoding \cap tileBad
    /\ tileDecoding' = tileDecoding \ {p}
    /\ UNCHANGED <<tileLatest, tileBad, canvas, detSet, overlay, infoList>>

\* img.onerror of payload p: the canvas is filled and marked
ImgOnerror(p) ==
    /\ UNCHANGED <<camVars, adminVars, sockVars>>
    /\ p \in tileDecoding \cap tileBad
    /\ tileDecoding' = tileDecoding \ {p}
    /\ canvas' = [frame |-> 0, boxes |-> 0, placeholder |-> TRUE]
    /\ UNCHANGED <<tileLatest, tileBad, detSet, overlay, infoList>>

NextTile ==
    \/ \E decodable \in BOOLEAN : TileReceive(decodable)
    \/ \E p \in Payloads : ImgOnload(p)
    \/ \E p \in Payloads : ImgOnerror(p)

\* -------------------------------------------------------- overlay renderer

\* The labels the detector sends, an empty one, and a name every JavaScript
\* object inherits
Labels == {"Human", "Weapon", "Vehicle", "Dog", "", "constructor"}

\* Confidences in hundredths: 87 is 0.87
Confidences == {0, 87}

\* Sequences over S of length at most n
RECURSIVE SeqsUpTo(_, _)
SeqsUpTo(S, n) ==
    IF n = 0 THEN {<<>>}
    ELSE LET shorter == SeqsUpTo(S, n - 1)
         IN shorter \cup {Append(q, x) : q \in shorter, x \in S}

\* The DetectionSets of the wire: the three arrays need not agree in length,
\* and labels or confidences can be missing altogether
DetectionSets ==
    {[boxes |-> [i \in 1..n |-> i], hasLabels |-> hl, labels |-> ls,
      hasConfidences |-> hc, confidences |-> cs] :
        n \in 0..MaxBoxes, hl \in BOOLEAN, hc \in BOOLEAN,
        ls \in SeqsUpTo(Labels, MaxBoxes), cs \in SeqsUpTo(Confidences, MaxBoxes)}

\* A DetectionSet as JavaScript holds it: a missing array has no entries
WellFormed(ds) ==
    /\ ~ds.hasLabels => ds.labels = <<>>
    /\ ~ds.hasConfidences => ds.confidences = <<>>

\* colorMap[label]: an own key gives its colour, an inherited property name
\* gives that property, anything else is undefined
ColorMap(label) ==
    CASE label = "Human" -> "#FFFF00"
      [] label = "Weapon" -> "#FF0000"
      [] label = "Vehicle" -> "#0000FF"
      [] label = "constructor" -> "[Function: Object]"
      [] OTHER -> "undefined"

\* labels[i] || 'Unknown'
LabelAt(ds, i) ==
    IF i > Len(ds.labels) \/ ds.labels[i] = "" THEN "Unknown" ELSE ds.labels[i]

\* (confidences[i] || 0) * 100, to no decimals
PercentAt(ds, i) == IF i > Len(ds.confidences) THEN 0 ELSE ds.confidences[i]

\* colorMap[label] || '#00FF00'
ColorAt(ds, i) ==
    IF ColorMap(LabelAt(ds, i)) = "undefined" THEN "#00FF00"
    ELSE ColorMap(LabelAt(ds, i))

\* The values the strokeStyle setter accepts; it ignores any other
CssColors == {"#FFFF00", "#FF0000", "#0000FF", "#00FF00", "#000000"}

\* ctx.strokeStyle after `ctx.strokeStyle = color` for box i: an assignment the
\* setter ignores leaves the style of the box before, and the style of a
\* canvas whose width was just set is black
RECURSIVE StrokeAt(_, _)
StrokeAt(ds, i) ==
    IF ColorAt(ds, i) \in CssColors THEN ColorAt(ds, i)
    ELSE IF i = 1 THEN "#000000"
    ELSE StrokeAt(ds, i - 1)

\* drawBoundingBoxes(ctx, detections): one stroked box with its label chip per
\* entry of boxes
DrawBoundingBoxes(ds) ==
    [i \in 1..Len(ds.boxes) |->
        [box |-> ds.boxes[i],
         label |-> LabelAt(ds, i),
         percent |-> PercentAt(ds, i),
         color |-> ColorAt(ds, i),
         stroke |-> StrokeAt(ds, i)]]

\* Reading labels[i] or confidences[i] of a missing array raises a TypeError
Raises(ds) == ds.boxes # <<>> /\ (~ds.hasLabels \/ ~ds.hasConfidences)

\* One call of drawBoundingBoxes
DrawOverlay ==
    /\ UNCHANGED <<camVars, adminVars, sockVars>>
    /\ ~overlay.done
    /\ overlay' = IF Raises(detSet)
                    THEN [done |-> TRUE, raised |-> TRUE, drawn |-> <<>>]
                    ELSE [done |-> TRUE, raised |-> FALSE,
                          drawn |-> DrawBoundingBoxes(detSet)]
    /\ UNCHANGED <<tileLatest, tileDecoding, tileBad, canvas, detSet, infoList>>

\* (confidences[i] * 100).toFixed(0) of the list: an index past the end reads
\* undefined, whose product is NaN
InfoPercentAt(ds, i) ==
    IF i > Len(ds.confidences) THEN "NaN" ELSE ToString(ds.confidences[i])

\* The list is shown for a non-minimal tile whose labels array has entries
InfoShown(ds, minimal) == ~minimal /\ ds.hasLabels /\ ds.labels # <<>>

\* One render of the tile's "Detections:" list: one chip per entry of labels
RenderInfo(minimal) ==
    /\ UNCHANGED <<camVars, adminVars, sockVars>>
    /\ ~infoList.done
    /\ infoList' =
         IF ~InfoShown(detSet, minimal)
           THEN [done |-> TRUE, raised |-> FALSE, items |-> <<>>]
           ELSE IF ~detSet.hasConfidences
                  THEN [done |-> TRUE, raised |-> TRUE, items |-> <<>>]
                  ELSE [done |-> TRUE, raised |-> FALSE,
                        items |-> [i \in 1..Len(detSet.labels) |->
                                     [label |-> detSet.labels[i],
                                      percent |-> InfoPercentAt(detSet, i)]]]
    /\ UNCHANGED <<tileLatest, tileDecoding, tileBad, canvas, detSet, overlay>>

\* The DetectionSet of the payload being drawn
OverlayInit ==
    /\ tileLatest = 0
    /\ tileDecoding = {}
    /\ tileBad = {}
    /\ canvas = Blank
    /\ detSet \in {ds \in DetectionSets : WellFormed(ds)}
    /\ overlay = [done |-> FALSE, raised |-> FALSE, drawn |-> <<>>]
    /\ infoList = [done |-> FALSE, raised |-> FALSE, items |-> <<>>]

NextOverlay ==
    \/ DrawOverlay
    \/ \E minimal \in BOOLEAN : RenderInfo(minimal)

\* ---------------------------------------------------------- specifications

\* A browser with the media devices API: the admin and the transport session
\* module never read it
CamIdle == CamInit /\ hasMediaDevices

InitCamera == CamInit /\ AdminInit /\ SocketInit /\ TileInit

InitAdmin == CamIdle /\ AdminInit /\ SocketInit /\ TileInit

InitSocket == CamIdle /\ AdminInit /\ SocketInit /\ TileInit

InitTile == CamIdle /\ AdminInit /\ SocketInit /\ TileInit

InitOverlay == CamIdle /\ AdminInit /\ SocketInit /\ OverlayInit

SpecCamera == InitCamera /\ [][NextCamera]_vars

\* The browser delivers the events it owes: a pending getUserMedia settles, a
\* video with a source loads its metadata, a pending play() settles, the
\* interval fires, the transport drains
FairCamera ==
    /\ WF_vars(AcquireOk \/ AcquireFail)
    /\ WF_vars(MetadataLoaded)
    /\ WF_vars(PlayResolved \/ PlayRejected)
    /\ WF_vars(\E rollover \in BOOLEAN : Tick(rollover))
    /\ WF_vars(SendComplete)

SpecCameraFair == InitCamera /\ [][NextCamera]_vars /\ FairCamera

SpecAdmin == InitAdmin /\ [][NextAdmin]_vars

SpecSocket == InitSocket /\ [][NextSocket]_vars

SpecTile == InitTile /\ [][NextTile]_vars

SpecOverlay == InitOverlay /\ [][NextOverlay]_vars

\* ------------------------------------------------------------------ claims

\* C1: in every reachable state of a camera node the capture/transmit timer is
\* scheduled if and only if the session status is STREAMING.
C1_TimerIffStreaming == (activeTimers > 0) <=> (status = "STREAMING")

\* C2: a camera_frame is emitted only while a deploy authorizes it: no step
\* emits a frame after deploy:stop or a disconnect was handled and before the
\* next deploy:assigned.
C2_FramesOnlyWhileDeployed == [][emitted' > emitted => deployed]_vars

\* C3: once the last command handled is a stop and no device acquisition is
\* pending, no acquired stream remains unreleased and no timer remains scheduled.
C3_NoLeakAfterStop ==
    (lastCmd = "stop" /\ pending = 0) => (openStreams = 0 /\ activeTimers = 0)

\* C4: at most one acquired and not yet released capture device stream exists
\* on a camera node at any time.
C4_AtMostOneOpenStream == openStreams <= 1

\* C5: the state the camera:disconnect handler for sid s leaves holds neither a
\* registry record with sid s nor a detection payload keyed by s.
C5_DisconnectRemovesBoth ==
    adminEvent.type = "camera:disconnect" =>
        /\ adminEvent.sid \notin Sids(cameras)
        /\ adminEvent.sid \notin DOMAIN detections

\* C5 witness: a camera:disconnect was handled for a sid that had both a record
\* and a payload, while the other camera keeps its record and its payload.
C5_Witness ==
    /\ adminEvent.type = "camera:disconnect"
    /\ adminEvent.had
    /\ \E t \in SIDs \ {adminEvent.sid} : Held(t)

\* C6: in every reachable admin state stats.activeThreats equals the sum of
\* detections.count over the payloads currently held.
C6_ActiveThreatsIsSum ==
    stats.activeThreats = SumCounts(detections, DOMAIN detections)

\* C7: stats.totalDetections never decreases; a detection:result arrival adds
\* the arriving count to it (0 when the count is absent) and every other admin
\* event leaves it unchanged.
C7_TotalDetectionsRunningSum ==
    [][IF adminEvent'.type = "detection:result"
         THEN stats'.totalDetections = stats.totalDetections +
                  (IF adminEvent'.count = <<>> THEN 0 ELSE adminEvent'.count[1])
         ELSE stats'.totalDetections = stats.totalDetections]_vars

\* C7 witness: two arrivals for one sid have been counted and a registry event
\* has recomputed the camera counts since; the running sum exceeds what is held.
C7_Witness ==
    /\ stats.totalDetections = 2
    /\ stats.totalCameras > 0
    /\ SumCounts(detections, DOMAIN detections) = 1
    /\ adminEvent.type = "deploy:success"

\* C8: after every admin event stats.totalCameras is the number of registry
\* records and stats.deployedCameras the number of them with deployed = true.
C8_CameraStatsMatchRegistry ==
    /\ stats.totalCameras = Len(cameras)
    /\ stats.deployedCameras = Cardinality({i \in DOMAIN cameras : cameras[i].deployed})

\* C9: connectSocket called while the current session exists and is connected
\* returns that session and creates no connection, whatever the token.
C9_ConnectIdempotent ==
    [][(sockEvent'.op = "connectSocket" /\ SocketConnected) =>
          (ret' = socket /\ socket' = socket /\ conn' = conn /\ attempts' = attempts)]_vars

\* C9 witness: connectSocket was called without a token on a connected session
\* and returned it; the session is still the only connection ever made.
C9_Witness ==
    /\ sockEvent = [op |-> "connectSocket", token |-> ""]
    /\ SocketConnected
    /\ ret = socket
    /\ Created = {socket}

\* C10: a process holds at most one connection that is still connecting,
\* connected or reconnecting.
C10_AtMostOneAlive == Cardinality(Alive) <= 1

\* C11: connectSocket called with an absent or empty token while no connected
\* session exists returns null, creates no connection and leaves the module's
\* session reference as it was.
C11_NoTokenNoAttempt ==
    [][(sockEvent'.op = "connectSocket" /\ sockEvent'.token = "" /\ ~SocketConnected) =>
          (ret' = 0 /\ socket' = socket /\ conn' = conn /\ attempts' = attempts)]_vars

\* C11 witness: connectSocket without a token returned null while the module
\* held a session that was still connecting or reconnecting, and kept it.
C11_Witness ==
    /\ sockEvent = [op |-> "connectSocket", token |-> ""]
    /\ ret = 0
    /\ socket # 0
    /\ conn[socket] \in {"connecting", "reconnecting"}
    /\ Created = {socket}

\* C12: emitEvent called with no session or a session that is not connected
\* hands nothing to the transport, logs one fault, changes nothing of the
\* session and does not raise.
C12_EmitWhenDisconnected ==
    [][(sockEvent'.op = "emitEvent" /\ ~SocketConnected) =>
          /\ emitLog'.sent = emitLog.sent
          /\ emitLog'.faults = emitLog.faults + 1
          /\ ~emitLog'.raised
          /\ UNCHANGED <<socket, conn, attempts, ret>>]_vars

\* C12 witness: emitEvent has been called twice while no connected session
\* existed, the second time on a reconnecting one; nothing was sent and two
\* faults were logged.
C12_Witness ==
    /\ sockEvent.op = "emitEvent"
    /\ emitLog = [sent |-> 0, faults |-> 2, raised |-> FALSE]
    /\ socket # 0
    /\ conn[socket] = "reconnecting"

\* C13: once every pending decode of a tile has completed, the tile shows the
\* frame of the payload received last (when that frame is decodable), and a
\* displayed frame carries the boxes of its own payload.
C13_LatestFrameShown ==
    /\ (tileDecoding = {} /\ tileLatest > 0 /\ tileLatest \notin tileBad) =>
           canvas.frame = tileLatest
    /\ canvas.frame # 0 => canvas.boxes = canvas.frame

\* The canvas part of C14: drawBoundingBoxes does not raise, draws one box per
\* entry of boxes, and uses "Unknown" and 0 past the end of labels and of
\* confidences.
CanvasDefaults ==
    (overlay.done /\ detSet.hasLabels /\ detSet.hasConfidences) =>
        /\ ~overlay.raised
        /\ Len(overlay.drawn) = Len(detSet.boxes)
        /\ \A i \in 1..Len(detSet.boxes) :
              /\ overlay.drawn[i].box = detSet.boxes[i]
              /\ i > Len(detSet.labels) => overlay.drawn[i].label = "Unknown"
              /\ i > Len(detSet.confidences) => overlay.drawn[i].percent = 0

\* The list part of C14: the "Detections:" list does not raise and shows 0 per
\* cent at each index past the end of confidences.
InfoDefaults ==
    (infoList.done /\ detSet.hasLabels /\ detSet.hasConfidences) =>
        /\ ~infoList.raised
        /\ \A i \in 1..Len(infoList.items) :
              i > Len(detSet.confidences) => infoList.items[i].percent = "0"

\* C14: for a DetectionSet whose boxes, labels and confidences arrays differ in
\* length, the tile renders without raising, draws one box per entry of boxes,
\* and uses "Unknown" and 0 at each index past the end of labels and of
\* confidences.
C14_MismatchedLengths == CanvasDefaults /\ InfoDefaults

\* C15: a tick that captures a frame hands it to the transport in the same
\* step whether or not an earlier send is still in flight, a send in flight
\* never disables the tick, and the node holds at most one frame of its own.
C15_SendWithoutWaiting ==
    /\ [](captured - emitted <= 1)
    /\ []((activeTimers > 0 /\ CanCapture /\ emitted < MaxFrames /\ inFlight > 0) =>
             ENABLED <<Tick(FALSE)>>_vars)
    /\ [][captured' > captured =>
             (emitted' = emitted + 1 /\ inFlight' = inFlight + 1)]_vars

\* C15 witness: a second tick handed its frame over while the first send was
\* still in flight.
C15_Witness == camEvent = "tick" /\ inFlight = 2 /\ emitted = 2 /\ captured = 2

\* The registry row of sid shows IDLE and no payload of sid is held
StoppedLocally(sid) ==
    /\ \A i \in DOMAIN cameras : cameras[i].sid = sid => ~cameras[i].deployed
    /\ sid \notin DOMAIN detections

CamStep(event, from) == status \in from /\ camEvent' = event

\* C17: a transport disconnect handled while the node is CONNECTED, DEPLOYED or
\* STREAMING leaves the status DISCONNECTED, the transmit timer cancelled and
\* the held device stream stopped.
C17_DisconnectForcesStop ==
    [][CamStep("disconnect", {"CONNECTED", "DEPLOYED", "STREAMING"}) =>
          /\ status' = "DISCONNECTED"
          /\ ~intervalRef' /\ activeTimers' = 0
          /\ ~streamRef' /\ openStreams' = openStreams - (IF streamRef THEN 1 ELSE 0)]_vars

\* C18: a deploy:stop handled while the node is DEPLOYED or STREAMING and
\* connected cancels the timer, releases the held stream, takes the status
\* through STOPPED and leaves it at CONNECTED.
C18_StopSettlesConnected ==
    [][(CamStep("deploy:stop", {"DEPLOYED", "STREAMING"}) /\ connected) =>
          /\ ~intervalRef' /\ activeTimers' = 0
          /\ ~streamRef' /\ openStreams' = openStreams - (IF streamRef THEN 1 ELSE 0)
          /\ \E i \in DOMAIN trail' : trail'[i] = "STOPPED"
          /\ status' = "CONNECTED"]_vars

\* C19: a deploy:assigned whose device acquisition fails leaves the status
\* ERROR, schedules no timer and holds no device stream, and no camera_frame is
\* emitted from then until an acquisition succeeds.
C19_FailedAcquisition ==
    /\ [][(camEvent' = "acquire-failed" \/
            (camEvent' = "deploy:assigned" /\ ~hasMediaDevices)) =>
              /\ status' = "ERROR"
              /\ activeTimers' <= activeTimers
              /\ ~streamRef']_vars
    /\ [][lastAcq = "failed" => emitted' = emitted]_vars

\* What can take a deploy off its course to STREAMING from outside: a stop, a
\* disconnect, a newer deploy, or the browser refusing to play
Interrupted(from) ==
    \/ lastCmd = "stop"
    \/ ~connected
    \/ deployFrom # from
    \/ video = "paused"

\* C20: ERROR and DISCONNECTED are not terminal. A deploy:assigned that arrives
\* in ERROR and whose acquisition succeeds leads to STREAMING; a connect after a
\* disconnect sets CONNECTED, and a deploy:assigned that then arrives and whose
\* acquisition succeeds leads to STREAMING.
C20_Recoverable ==
    /\ (camEvent = "acquired" /\ deployFrom = "ERROR") ~>
           (status = "STREAMING" \/ Interrupted("ERROR"))
    /\ [][(everDisconnected /\ camEvent' = "connect") => status' = "CONNECTED"]_vars
    /\ (camEvent = "acquired" /\ deployFrom = "CONNECTED" /\ everDisconnected) ~>
           (status = "STREAMING" \/ Interrupted("CONNECTED"))

\* C21: a handleDeploy made while the admin is not connected emits no
\* deploy_start, shows the warning, and leaves the registry, the payload map
\* and the stats as they were.
C21_DeployRefusedWhenDisconnected ==
    [][(adminEvent'.type = "handleDeploy" /\ ~adminConnected) =>
          /\ ~adminEvent'.sent
          /\ adminEvent'.alerted
          /\ UNCHANGED <<cameras, detections, stats, adminConnected>>]_vars

\* C21 witness: Deploy was clicked on the IDLE row of a camera while the admin
\* was disconnected and still held a payload; nothing was sent.
C21_Witness ==
    /\ adminEvent.type = "handleDeploy"
    /\ ~adminConnected
    /\ ~adminEvent.sent /\ adminEvent.alerted
    /\ adminEvent.sid \in Listed(FALSE)
    /\ detections # <<>>

\* C22: after a detection:result for sid s is handled, the payload held for s
\* is the arriving one whatever the timestamp of the payload held before, the
\* map is keyed by sid (one payload per sid), the payloads of the other sids
\* are as they were, and the registry is unchanged.
C22_LastWriteWins ==
    [][adminEvent'.type = "detection:result" =>
          LET s == adminEvent'.sid
          IN /\ DOMAIN detections' = DOMAIN detections \cup {s}
             /\ detections'[s] = [camera_sid |-> s, count |-> adminEvent'.count,
                                  timestamp |-> adminEvent'.timestamp]
             /\ \A k \in DOMAIN detections' \ {s} : detections'[k] = detections[k]
             /\ cameras' = cameras]_vars

\* C22 witness: a payload with timestamp 1 arrived for a sid whose held payload
\* had timestamp 2, and replaced it, while the other sid keeps its payload.
C22_Witness ==
    /\ adminEvent.type = "detection:result"
    /\ adminEvent.stale
    /\ detections[adminEvent.sid].timestamp = 1
    /\ DOMAIN detections = SIDs

\* C23: a fault inside one tick leaves the timer scheduled and the status and
\* the held stream as they were, and the next tick can still emit a frame.
C23_FaultContained ==
    /\ [][camEvent' = "tick-fault" =>
             /\ intervalRef' = intervalRef /\ activeTimers' = activeTimers
             /\ status' = status
             /\ streamRef' = streamRef /\ openStreams' = openStreams
             /\ emitted' = emitted]_vars
    /\ []((camEvent = "tick-fault" /\ emitted < MaxFrames) =>
             (activeTimers > 0 /\ ENABLED <<Tick(FALSE)>>_vars))

\* C23 witness: a tick faulted on a streaming node after one frame had been
\* sent; the timer is still scheduled and the stream still held.
C23_Witness ==
    /\ camEvent = "tick-fault"
    /\ status = "STREAMING" /\ deployed
    /\ emitted = 1
    /\ activeTimers = 1 /\ streamRef

\* The payloads whose decode ends in this step
Decoded == tileDecoding \ tileDecoding'

\* C24: when the frame of a payload cannot be decoded the canvas gets the
\* placeholder and no boxes of that payload, and the decodable frame of a
\* later payload is then drawn with its own boxes.
C24_PlaceholderOnDecodeFailure ==
    [][\A p \in Decoded :
          IF p \in tileBad
            THEN canvas' = [frame |-> 0, boxes |-> 0, placeholder |-> TRUE]
            ELSE canvas' = [frame |-> p, boxes |-> p, placeholder |-> FALSE]]_vars

\* C24 witness: the first payload failed to decode, and the tile now shows the
\* frame and boxes of the second, which replaced the placeholder.
C24_Witness ==
    /\ tileLatest = 2
    /\ tileBad = {1}
    /\ tileDecoding = {}
    /\ canvas = [frame |-> 2, boxes |-> 2, placeholder |-> FALSE]

\* The palette of the specification
Palette(label) ==
    CASE label = "Human" -> "#FFFF00"
      [] label = "Weapon" -> "#FF0000"
      [] label = "Vehicle" -> "#0000FF"
      [] OTHER -> "#00FF00"

\* C25: every box is stroked in the palette colour of its label: yellow for
\* "Human", red for "Weapon", blue for "Vehicle", green for any other label,
\* "Unknown" included.
C25_PaletteForEveryLabel ==
    (overlay.done /\ ~overlay.raised) =>
        \A i \in 1..Len(overlay.drawn) :
            overlay.drawn[i].stroke = Palette(overlay.drawn[i].label)

\* The palette holds for every label that is not the name of a property that
\* colorMap inherits.
PaletteForOwnLabels ==
    (overlay.done /\ ~overlay.raised) =>
        \A i \in 1..Len(overlay.drawn) :
            overlay.drawn[i].label # "constructor" =>
                overlay.drawn[i].stroke = Palette(overlay.drawn[i].label)

\* C26: every sid that keys a held payload is the sid of a registry record.
C26_PayloadsHaveRecords == DOMAIN detections \subseteq Sids(cameras)

\* C27: no two records of the registry carry the same sid.
C27_UniqueSids ==
    \A i, j \in DOMAIN cameras : cameras[i].sid = cameras[j].sid => i = j

\* C28: a deploy:success for sid s that is delivered after the admin's stop
\* for s, with no deploy of s by the admin in between, leaves the record of s
\* at deployed=false.
C28_StopNotUndoneByLateAck ==
    [][(/\ adminEvent.type = "handleStop" /\ adminEvent.sent
        /\ adminEvent'.type = "deploy:success"
        /\ adminEvent'.sid = adminEvent.sid) =>
          \A i \in DOMAIN cameras' :
              cameras'[i].sid = adminEvent.sid => ~cameras'[i].deployed]_vars

\* C29: on a camera node the reported total framesSent plus the per-second
\* frame counter equals the number of camera_frame messages emitted so far;
\* framesSent never decreases and never exceeds the number emitted.
C29_FrameAccounting ==
    /\ [](totalFramesSent + frameCount = emitted)
    /\ [](totalFramesSent <= emitted)
    /\ [][totalFramesSent' >= totalFramesSent]_vars

\* C29 witness: after a disconnect and a reconnect a tick sent the second
\* frame; the first is in the reported total, the second in the counter.
C29_Witness ==
    /\ camEvent = "tick"
    /\ everDisconnected /\ connected
    /\ deploys >= 2
    /\ emitted = 2 /\ totalFramesSent = 1 /\ frameCount = 1

====
